---- MODULE Spec2Model ----
(***************************************************************************)
(* bevy_server_browser: the plugin's systems (src/src/lib.rs) as a state   *)
(* machine over the Bevy frame: Startup, then PreUpdate, Update and        *)
(* PostUpdate of every frame.  The host application acts in Startup and     *)
(* Update, the mDNS daemon enqueues events while the host runs, the         *)
(* plugin's systems run in PreUpdate and PostUpdate, and the commands a     *)
(* system queues are applied at the end of its schedule.                    *)
(***************************************************************************)
EXTENDS Integers, Sequences, FiniteSets, TLC

\* ------------------------------------------------------------------ bounds
\* Longest browse stream the daemon fills between two drains.
MaxQueue == 2
\* Most SearchServers events the host queues before search_servers reads them.
MaxSignals == 2
\* Most discovery sessions (browse calls) of one run.
MaxSessions == 2
\* Longest monitor stream the daemon fills between two drains.
MaxMonitor == 1
\* Longest head and longest tail of a name given to ServerBrowserPlugin::new,
\* around a run of letters that brings it to the length limit.
MaxAffix == 2

\* ----------------------------------------------------------------- strings
\* Strings the code takes apart are sequences of one-character strings.
LocalSuffix == <<".", "l", "o", "c", "a", "l", ".">>

\* str::strip_suffix(suffix).unwrap_or(s)
StripSuffix(s, suffix) ==
    IF /\ Len(s) >= Len(suffix)
       /\ SubSeq(s, Len(s) - Len(suffix) + 1, Len(s)) = suffix
    THEN SubSeq(s, 1, Len(s) - Len(suffix))
    ELSE s

\* u8::is_ascii_alphabetic and u8::is_ascii_alphanumeric, over the
\* characters the names of the model are made of.
AsciiLetters == {"a", "Z", "t", "e", "s", "i", "d"}
AsciiDigits == {"1"}
IsAsciiAlphabetic(c) == c \in AsciiLetters
IsAsciiAlphanumeric(c) == c \in AsciiLetters \cup AsciiDigits

\* str::replace(from, to) for one-character patterns.
Replace(s, from, to) == [i \in 1..Len(s) |-> IF s[i] = from THEN to ELSE s[i]]

\* str::starts_with(c), str::ends_with(c), str::contains(pattern)
StartsWith(s, c) == s # <<>> /\ Head(s) = c
EndsWith(s, c) == s # <<>> /\ s[Len(s)] = c
Contains(s, pattern) ==
    \E i \in 1..(Len(s) - Len(pattern) + 1) :
        SubSeq(s, i, i + Len(pattern) - 1) = pattern

\* assert!(name.len() <= 15, ...)
MaxNameLen == 15

\* A failed assert!: the panic, no name is returned.
Panic == [ok |-> FALSE, name |-> <<>>]

\* validate_name without the last assert, the one asking for a letter.
validate_name_no_letter(name) ==
    LET n == Replace(name, "_", "-")
    IN  IF /\ ~StartsWith(n, "-")
           /\ ~EndsWith(n, "-")
           /\ ~Contains(n, <<"-", "-">>)
           /\ Len(n) <= MaxNameLen
           /\ Len(n) > 0
           /\ \A i \in 1..Len(n) : IsAsciiAlphanumeric(n[i]) \/ n[i] = "-"
        THEN [ok |-> TRUE, name |-> n]
        ELSE Panic

\* validate_name: the name with its underscores replaced, when every assert
\* passes.
validate_name(name) ==
    LET n == Replace(name, "_", "-")
    IN  IF /\ ~StartsWith(n, "-")
           /\ ~EndsWith(n, "-")
           /\ ~Contains(n, <<"-", "-">>)
           /\ Len(n) <= MaxNameLen
           /\ Len(n) > 0
           /\ \A i \in 1..Len(n) : IsAsciiAlphanumeric(n[i]) \/ n[i] = "-"
           /\ \E i \in 1..Len(n) : IsAsciiAlphabetic(n[i])
        THEN [ok |-> TRUE, name |-> n]
        ELSE Panic

\* The name the host gives to ServerBrowserPlugin::new: "test_id".
RawName == <<"t", "e", "s", "t", "_", "i", "d">>

\* Service.name: the plugin's validated name, here validate_name("test_id").
ServiceName == validate_name(RawName).name

\* format!("_{}._udp.local.", service.name)
ServiceType(name) == <<"_">> \o name \o <<".", "_", "u", "d", "p">> \o LocalSuffix

\* format!("{}", std::process::id())
InstanceName == <<"7">>

\* gethostname(), and format!("{}.local.", gethostname())
HostName == <<"h">>
ServiceHostname == HostName \o LocalSuffix

\* ServiceInfo::get_fullname(): "<instance>.<service type>"
ServiceInfoFullname(ty, instance) == instance \o <<".">> \o ty

\* ------------------------------------------------------------------- maps
EmptyMap == [x \in {} |-> ""]

\* HashMap::insert
MapInsert(m, k, v) == [x \in DOMAIN m \cup {k} |-> IF x = k THEN v ELSE m[x]]

\* HashMap::remove
MapRemove(m, k) == [x \in DOMAIN m \ {k} |-> m[x]]

\* TxtProperty::val_str(): the value, "" for a property without one.
ValStr(property) == IF property.val = <<>> THEN "" ELSE property.val[1]

\* The loop building `metadata` in update_discovered_servers: one insert per
\* property, in the order the TXT record lists them.
RECURSIVE MetadataOf(_)
MetadataOf(properties) ==
    IF properties = <<>> THEN EmptyMap
    ELSE LET n == Len(properties)
         IN  MapInsert(MetadataOf(SubSeq(properties, 1, n - 1)),
                       properties[n].key, ValStr(properties[n]))

\* ------------------------------------------------- what the daemon reports
Fullname1 == <<"a", ".">> \o ServiceType(ServiceName)
Fullname2 == <<"b", ".">> \o ServiceType(ServiceName)
Fullnames == {Fullname1, Fullname2}

NameProp(v) == [key |-> "name", val |-> <<v>>]

BaseInfo(fullname) ==
    [fullname |-> fullname, hostname |-> <<"p">> \o LocalSuffix, port |-> 1234,
     addresses |-> {"A"}, properties |-> <<NameProp("S")>>]

\* The resolved services the daemon may report: a base record for each
\* fullname and, for the first, one that derives the same DiscoveredServer
\* (hostname without the suffix) and one differing from it in each field.
Infos ==
    {BaseInfo(Fullname1), BaseInfo(Fullname2),
     [BaseInfo(Fullname1) EXCEPT !.hostname = <<"p">>],
     [BaseInfo(Fullname1) EXCEPT !.hostname = <<"q">> \o LocalSuffix],
     [BaseInfo(Fullname1) EXCEPT !.port = 4321],
     [BaseInfo(Fullname1) EXCEPT !.addresses = {"A", "B"}],
     [BaseInfo(Fullname1) EXCEPT !.properties = <<[key |-> "name", val |-> <<>>]>>]}

Resolved(info) == [type |-> "ServiceResolved", info |-> info]
Removed(fullname) == [type |-> "ServiceRemoved", fullname |-> fullname]

\* mdns_sd::ServiceEvent values on a browse stream: the resolved services,
\* the removal of the first, and an event of another kind.
ServiceEvents ==
    {Resolved(i) : i \in Infos} \cup {Removed(Fullname1), [type |-> "SearchStarted"]}

\* mdns_sd::DaemonEvent values on the monitor stream.
DaemonEvents == {"Announce"}

\* What the host advertises: DiscoverableServer { port, metadata }.
Records ==
    {[port |-> 1234, metadata |-> MapInsert(EmptyMap, "name", "TestServer")],
     [port |-> 4321, metadata |-> EmptyMap]}

\* ---------------------------------------------------- update_discovered_servers
\* The suffix stripped as often as it is there.
RECURSIVE StripEverySuffix(_, _)
StripEverySuffix(s, suffix) ==
    IF StripSuffix(s, suffix) = s THEN s
    ELSE StripEverySuffix(StripSuffix(s, suffix), suffix)

\* DeriveServer stripping every trailing ".local." of the hostname.
DeriveServerStripEvery(info) ==
    [hostname |-> StripEverySuffix(info.hostname, LocalSuffix),
     port |-> info.port,
     addresses |-> info.addresses,
     metadata |-> MetadataOf(info.properties)]

\* The DiscoveredServer built from a resolved ServiceInfo.
DeriveServer(info) ==
    [hostname |-> StripSuffix(info.hostname, LocalSuffix),
     port |-> info.port,
     addresses |-> info.addresses,
     metadata |-> MetadataOf(info.properties)]

\* ApplyEvent without the comparison: a Resolved always overwrites and marks.
ApplyEventAlwaysInsert(st, event) ==
    IF event.type = "ServiceResolved" THEN
        [st EXCEPT !.servers = MapInsert(st.servers, event.info.fullname,
                                         DeriveServer(event.info)),
                   !.changed = TRUE]
    ELSE IF event.type = "ServiceRemoved" THEN
        [st EXCEPT !.servers = MapRemove(st.servers, event.fullname),
                   !.changed = TRUE]
    ELSE st

\* ApplyEvent calling set_changed() at every mutation, inside the loop.
ApplyEventNotifyEach(st, event) ==
    IF event.type = "ServiceResolved" THEN
        LET server == DeriveServer(event.info)
            key == event.info.fullname
        IN  IF key \in DOMAIN st.servers /\ st.servers[key] = server
            THEN st
            ELSE [st EXCEPT !.servers = MapInsert(st.servers, key, server),
                            !.changed = TRUE, !.notified = @ + 1]
    ELSE IF event.type = "ServiceRemoved" THEN
        [st EXCEPT !.servers = MapRemove(st.servers, event.fullname),
                   !.changed = TRUE, !.notified = @ + 1]
    ELSE st

\* ApplyEvent with or_insert semantics: a stored record is never overwritten.
ApplyEventKeepFirst(st, event) ==
    IF event.type = "ServiceResolved" THEN
        IF event.info.fullname \in DOMAIN st.servers
        THEN st
        ELSE [st EXCEPT !.servers = MapInsert(st.servers, event.info.fullname,
                                              DeriveServer(event.info)),
                        !.changed = TRUE]
    ELSE IF event.type = "ServiceRemoved" THEN
        [st EXCEPT !.servers = MapRemove(st.servers, event.fullname),
                   !.changed = TRUE]
    ELSE st

\* One iteration of the drain loop.  st is [servers, changed, notified]:
\* the map, the local `changed`, and the set_changed calls made so far.
ApplyEvent(st, event) ==
    IF event.type = "ServiceResolved" THEN
        LET server == DeriveServer(event.info)
            key == event.info.fullname
        IN  IF key \in DOMAIN st.servers
            THEN IF st.servers[key] # server
                 THEN [st EXCEPT !.servers = MapInsert(st.servers, key, server),
                                 !.changed = TRUE]
                 ELSE st
            ELSE [st EXCEPT !.servers = MapInsert(st.servers, key, server),
                            !.changed = TRUE]
    ELSE IF event.type = "ServiceRemoved" THEN
        [st EXCEPT !.servers = MapRemove(st.servers, event.fullname),
                   !.changed = TRUE]
    ELSE st

\* for event in browsing.browse.try_iter() { ... }
RECURSIVE DrainLoop(_, _)
DrainLoop(st, events) ==
    IF events = <<>> THEN st
    ELSE DrainLoop(ApplyEvent(st, Head(events)), Tail(events))

\* if changed { discovered_servers.set_changed(); }
AfterLoop(st) == IF st.changed THEN [st EXCEPT !.notified = @ + 1] ELSE st

\* The whole body of update_discovered_servers over the events it drains.
DrainResult(servers0, events) ==
    AfterLoop(DrainLoop([servers |-> servers0, changed |-> FALSE, notified |-> 0],
                        events))

\* ------------------------------------------------------------- search_servers
\* search_servers without the clear.
ClearServersNever(servers0) == [servers |-> servers0, marked |-> FALSE]

\* The clear made through bypass_change_detection(): nothing is marked.
ClearServersBypass(servers0) == [servers |-> EmptyMap, marked |-> FALSE]

\* The clear made without asking is_empty() first: every search marks.
ClearServersAlways(servers0) == [servers |-> EmptyMap, marked |-> TRUE]

\* if !discovered_servers.is_empty() { discovered_servers.0.clear(); }
\* The clear goes through DerefMut, which marks the resource changed.
ClearServers(servers0) ==
    IF DOMAIN servers0 # {}
    THEN [servers |-> EmptyMap, marked |-> TRUE]
    ELSE [servers |-> servers0, marked |-> FALSE]

\* Reading one SearchServers event per frame instead of all of them.
ReadSignalsOne(n) == n - 1

\* search_servers_event.clear(): every queued SearchServers event is read.
ReadSignals(n) == 0

\* search_servers queuing only the removal of the old session.
SearchCommandsRemoveOnly(browse) == <<[cmd |-> "remove", resource |-> "Searching"]>>

\* commands.remove_resource::<Searching>(); commands.insert_resource(Searching { browse })
SearchCommands(browse) ==
    <<[cmd |-> "remove", resource |-> "Searching"],
      [cmd |-> "insert", resource |-> "Searching", value |-> browse]>>

\* ------------------------------------------------------------ register_server
\* The ServiceInfo built without the record's metadata.
ServiceInfoOfNoMetadata(server) ==
    [fullname |-> ServiceInfoFullname(ServiceType(ServiceName), InstanceName),
     hostname |-> ServiceHostname,
     port |-> server.port,
     metadata |-> EmptyMap]

\* ServiceInfo::new(&service_type, &instance_name, &service_hostname, "",
\*                  server.port, server.metadata.clone())
ServiceInfoOf(server) ==
    [fullname |-> ServiceInfoFullname(ServiceType(ServiceName), InstanceName),
     hostname |-> ServiceHostname,
     port |-> server.port,
     metadata |-> server.metadata]

\* commands.insert_resource(ServiceFullname(service_fullname))
RegisterCommands(service_fullname) ==
    <<[cmd |-> "insert", resource |-> "ServiceFullname", value |-> service_fullname]>>

\* unregister_server also removing the cached name.
UnregisterCommandsRemoveName == <<[cmd |-> "remove", resource |-> "ServiceFullname"]>>

\* unregister_server also closing the monitor session.
UnregisterCommandsCloseLogger == <<[cmd |-> "remove", resource |-> "Logger"]>>

\* What unregister_server queues: nothing.
UnregisterCommands == <<>>

\* commands.insert_resource(Logger(monitor))
LoggerCommands == <<[cmd |-> "insert", resource |-> "Logger", value |-> TRUE]>>

\* ------------------------------------------------------------------ commands
\* The resources the deferred commands touch: res is
\* [serviceFullname, searching, logger].
ApplyCommand(res, c) ==
    IF c.resource = "ServiceFullname" THEN
        [res EXCEPT !.serviceFullname = IF c.cmd = "insert" THEN <<c.value>> ELSE <<>>]
    ELSE IF c.resource = "Searching" THEN
        [res EXCEPT !.searching = IF c.cmd = "insert" THEN c.value ELSE 0]
    ELSE
        [res EXCEPT !.logger = (c.cmd = "insert")]

RECURSIVE ApplyCommands(_, _)
ApplyCommands(res, cs) ==
    IF cs = <<>> THEN res ELSE ApplyCommands(ApplyCommand(res, Head(cs)), Tail(cs))

\* --------------------------------------------------------------------- state
VARIABLES
    raw_name,           \* the name given to ServerBrowserPlugin::new
    plugin,             \* <<>>, or what validate_name made of raw_name
    phase,              \* the schedule that is running, or "Update": the host's turn
    done,               \* the plugin's systems that ran in the running schedule
    commands,           \* Commands queued by the systems of the running schedule
    crashed,            \* an .expect() on a transport call panicked
    discoverable,       \* the DiscoverableServer resource: <<>> or <<record>>
    ds_changed,         \* DiscoverableServer changed since register_server's condition last ran
    existed,            \* the local `existed` of unregister_server's resource_removed condition
    serviceFullname,    \* the ServiceFullname resource: <<>> or <<fullname>>
    logger,             \* the Logger resource exists
    signals,            \* SearchServers events search_servers has not read
    searching,          \* the Searching resource: 0, or the session whose stream it holds
    servers,            \* DiscoveredServerList.0
    list_changed,       \* DiscoveredServerList was marked changed in this frame
    sessions,           \* browse calls the daemon has answered: the newest session
    streams,            \* the browse streams not yet dropped, by session
    closed,             \* the sessions whose stream the daemon has closed
    monitor,            \* the monitor stream
    my_services,        \* the daemon's registered services, by fullname
    lastCmds,           \* the daemon's last two register/unregister commands
    calls,              \* the transport calls of this frame, in order
    set_changed_calls,  \* set_changed() calls of this frame
    drained,            \* <<>>, or what update_discovered_servers drained in this frame
    searched,           \* <<>>, or what search_servers found when it acted in this frame:
                        \* the session, the list's len(), the signals, the events
                        \* waiting in the session's stream
    expected            \* the last-writer-wins fold of the events the daemon
                        \* enqueued in the newest session

vars ==
    <<raw_name, plugin, phase, done, commands, crashed, discoverable, ds_changed, existed,
      serviceFullname, logger, signals, searching, servers, list_changed,
      sessions, streams, closed, monitor, my_services, lastCmds, calls,
      set_changed_calls, drained, searched, expected>>

hostVars == <<discoverable, ds_changed, signals>>
registrationVars == <<existed, serviceFullname, my_services, lastCmds>>
discoveryVars ==
    <<searching, servers, list_changed, sessions, streams, closed, expected>>
frameVars == <<calls, set_changed_calls, drained, searched>>
pluginVars == <<raw_name, plugin>>

\* The systems ServerBrowserPlugin::build adds to PreUpdate and to PostUpdate.
PreUpdateSystems == {"register_server", "unregister_server", "search_servers"}
PostUpdateSystems == {"log_daemon_events", "update_discovered_servers"}

\* Last writer wins: a Resolved sets its key to the record derived from it,
\* a Removed deletes its key, any other event changes nothing.
LastWriter(fold, event) ==
    IF event.type = "ServiceResolved"
    THEN [key \in DOMAIN fold \cup {event.info.fullname} |->
             IF key = event.info.fullname THEN DeriveServer(event.info) ELSE fold[key]]
    ELSE IF event.type = "ServiceRemoved"
    THEN [key \in DOMAIN fold \ {event.fullname} |-> fold[key]]
    ELSE fold

\* ServerBrowserPlugin::build: the resources it inserts, before any system runs.
Built ==
    /\ done = {}
    /\ commands = <<>>
    /\ crashed = FALSE
    /\ discoverable = <<>>
    /\ ds_changed = FALSE
    /\ existed = FALSE
    /\ serviceFullname = <<>>
    /\ logger = FALSE
    /\ signals = 0
    /\ searching = 0
    /\ servers = EmptyMap
    /\ list_changed = FALSE
    /\ sessions = 0
    /\ streams = EmptyMap
    /\ closed = {}
    /\ monitor = <<>>
    /\ my_services = EmptyMap
    /\ lastCmds = <<>>
    /\ calls = <<>>
    /\ set_changed_calls = 0
    /\ drained = <<>>
    /\ searched = <<>>
    /\ expected = EmptyMap

\* ServerBrowserPlugin::new("test_id") and build: the app before Startup.
Init ==
    /\ raw_name = RawName
    /\ plugin = <<validate_name(RawName)>>
    /\ phase = "Startup"
    /\ Built

\* ------------------------------------------------------------------- plugin
\* The names given to ServerBrowserPlugin::new: a head and a tail of up to
\* k characters each, around nothing or around a run of letters that brings
\* the name to the length limit, one short of it and one past it.
NameChars == {"a", "Z", "1", "-", "_", "!"}
Affixes(k) == UNION {[1..n -> NameChars] : n \in 0..k}
Letters(n) == [i \in 1..n |-> "a"]
RawNames(k) ==
    {head \o Letters(n) \o tail :
        head \in Affixes(k), tail \in Affixes(k),
        n \in {0, MaxNameLen - 4, MaxNameLen - 3, MaxNameLen - 2}}

\* The host is about to construct the plugin.
InitNew ==
    /\ raw_name \in RawNames(MaxAffix)
    /\ plugin = <<>>
    /\ phase = "New"
    /\ Built

\* ServerBrowserPlugin::new(name): Self(validate_name(name)), or the panic.
NewPlugin ==
    /\ phase = "New"
    /\ plugin = <<>>
    /\ plugin' = <<validate_name(raw_name)>>
    /\ crashed' = ~validate_name(raw_name).ok
    /\ UNCHANGED <<raw_name, phase, done, commands, logger, monitor>>
    /\ UNCHANGED <<hostVars, registrationVars, discoveryVars, frameVars>>

\* ---------------------------------------------------------------------- host
HostTurn == ~crashed /\ phase \in {"Startup", "Update"}

\* commands.insert_resource(DiscoverableServer { port, metadata })
HostInsert(record) ==
    /\ HostTurn
    /\ discoverable' = <<record>>
    /\ ds_changed' = TRUE
    /\ UNCHANGED <<phase, done, commands, crashed, signals, logger, monitor>>
    /\ UNCHANGED <<registrationVars, discoveryVars, frameVars>>
    /\ UNCHANGED pluginVars

\* A write through ResMut<DiscoverableServer>.
HostMutate(record) ==
    /\ HostTurn
    /\ discoverable # <<>>
    /\ discoverable' = <<record>>
    /\ ds_changed' = TRUE
    /\ UNCHANGED <<phase, done, commands, crashed, signals, logger, monitor>>
    /\ UNCHANGED <<registrationVars, discoveryVars, frameVars>>
    /\ UNCHANGED pluginVars

\* commands.remove_resource::<DiscoverableServer>()
HostRemove ==
    /\ HostTurn
    /\ discoverable # <<>>
    /\ discoverable' = <<>>
    /\ UNCHANGED <<phase, done, commands, crashed, ds_changed, signals, logger, monitor>>
    /\ UNCHANGED <<registrationVars, discoveryVars, frameVars>>
    /\ UNCHANGED pluginVars

\* EventWriter<SearchServers>::send_default()
HostSendSearch ==
    /\ HostTurn
    /\ signals < MaxSignals
    /\ sessions < MaxSessions
    /\ signals' = signals + 1
    /\ UNCHANGED <<phase, done, commands, crashed, discoverable, ds_changed, logger, monitor>>
    /\ UNCHANGED <<registrationVars, discoveryVars, frameVars>>
    /\ UNCHANGED pluginVars

\* -------------------------------------------------------------------- daemon
\* The daemon sends an event to the listener of the newest browse: while the
\* host runs, or earlier in the frame, before search_servers runs.  The other
\* PreUpdate systems do not read the stream, so an arrival during PreUpdate is
\* placed at the last point before search_servers.
TransportEnqueue(event) ==
    /\ ~crashed
    /\ IF phase = "PreUpdate"
       THEN done = PreUpdateSystems \ {"search_servers"}
       ELSE phase = "Update"
    /\ sessions \in DOMAIN streams
    /\ sessions \notin closed
    /\ Len(streams[sessions]) < MaxQueue
    /\ streams' = [streams EXCEPT ![sessions] = Append(@, event)]
    /\ expected' = LastWriter(expected, event)
    /\ UNCHANGED <<phase, done, commands, crashed, logger, monitor>>
    /\ UNCHANGED <<hostVars, registrationVars, frameVars>>
    /\ UNCHANGED <<searching, servers, list_changed, sessions, closed>>
    /\ UNCHANGED pluginVars

\* The daemon drops the sender of the newest browse (its thread ends): the
\* stream is closed, what it holds can still be received.
TransportClose ==
    /\ ~crashed
    /\ phase = "Update"
    /\ sessions \in DOMAIN streams
    /\ sessions \notin closed
    /\ closed' = closed \cup {sessions}
    /\ UNCHANGED <<phase, done, commands, crashed, logger, monitor>>
    /\ UNCHANGED <<hostVars, registrationVars, frameVars>>
    /\ UNCHANGED <<searching, servers, list_changed, sessions, streams, expected>>
    /\ UNCHANGED pluginVars

\* The daemon sends an event to its monitors.
MonitorEnqueue(event) ==
    /\ ~crashed
    /\ phase = "Update"
    /\ logger
    /\ Len(monitor) < MaxMonitor
    /\ monitor' = Append(monitor, event)
    /\ UNCHANGED <<phase, done, commands, crashed, logger>>
    /\ UNCHANGED <<hostVars, registrationVars, discoveryVars, frameVars>>
    /\ UNCHANGED pluginVars

\* ------------------------------------------------------------------- systems
StartupSystems == {"setup_logger"}

\* The newest two entries of the daemon's command log.
LastTwo(log) == IF Len(log) > 2 THEN SubSeq(log, Len(log) - 1, Len(log)) ELSE log

SystemsOf(schedule) ==
    IF schedule = "Startup" THEN StartupSystems
    ELSE IF schedule = "PreUpdate" THEN PreUpdateSystems
    ELSE IF schedule = "PostUpdate" THEN PostUpdateSystems
    ELSE {}

CanRun(schedule, system) == ~crashed /\ phase = schedule /\ system \notin done

\* setup_logger, in Startup.
SetupLogger ==
    /\ CanRun("Startup", "setup_logger")
    /\ done' = done \cup {"setup_logger"}
    /\ \E ok \in BOOLEAN :
        /\ calls' = Append(calls, [op |-> "monitor", ok |-> ok])
        /\ crashed' = ~ok
        /\ commands' = IF ok THEN commands \o LoggerCommands ELSE commands
    /\ UNCHANGED <<phase, logger, monitor, set_changed_calls, drained, searched>>
    /\ UNCHANGED <<hostVars, registrationVars, discoveryVars>>
    /\ UNCHANGED pluginVars

\* register_server unregistering the cached name before it registers again.
RegisterServerUnregisterFirst ==
    /\ CanRun("PreUpdate", "register_server")
    /\ done' = done \cup {"register_server"}
    /\ ds_changed' = FALSE
    /\ IF discoverable # <<>> /\ ds_changed
       THEN LET info == ServiceInfoOf(discoverable[1])
                register == [op |-> "register", fullname |-> info.fullname,
                             port |-> info.port, metadata |-> info.metadata,
                             ok |-> TRUE]
                unregister == IF serviceFullname = <<>> THEN <<>>
                              ELSE <<[op |-> "unregister",
                                      fullname |-> serviceFullname[1], ok |-> TRUE]>>
            IN  /\ calls' = calls \o unregister \o <<register>>
                /\ crashed' = FALSE
                /\ my_services' = MapInsert(my_services, info.fullname,
                                            [port |-> info.port, metadata |-> info.metadata])
                /\ lastCmds' = LastTwo(lastCmds \o [i \in 1..Len(unregister) |-> "unregister"]
                                         \o <<"register">>)
                /\ commands' = commands \o RegisterCommands(info.fullname)
       ELSE UNCHANGED <<calls, crashed, my_services, lastCmds, commands>>
    /\ UNCHANGED <<phase, discoverable, signals, existed, serviceFullname, logger, monitor>>
    /\ UNCHANGED <<discoveryVars, set_changed_calls, drained, searched>>
    /\ UNCHANGED pluginVars

\* register_server ignoring the result of register: it caches the name and
\* goes on.
RegisterServerIgnoreFailure ==
    /\ CanRun("PreUpdate", "register_server")
    /\ done' = done \cup {"register_server"}
    /\ ds_changed' = FALSE
    /\ IF discoverable # <<>> /\ ds_changed
       THEN LET info == ServiceInfoOf(discoverable[1])
            IN  \E ok \in BOOLEAN :
                 /\ calls' = Append(calls, [op |-> "register", fullname |-> info.fullname,
                                            port |-> info.port, metadata |-> info.metadata,
                                            ok |-> ok])
                 /\ crashed' = FALSE
                 /\ my_services' =
                        IF ok THEN MapInsert(my_services, info.fullname,
                                             [port |-> info.port, metadata |-> info.metadata])
                        ELSE my_services
                 /\ lastCmds' = IF ok THEN LastTwo(Append(lastCmds, "register"))
                                ELSE lastCmds
                 /\ commands' = commands \o RegisterCommands(info.fullname)
       ELSE UNCHANGED <<calls, crashed, my_services, lastCmds, commands>>
    /\ UNCHANGED <<phase, discoverable, signals, existed, serviceFullname, logger, monitor>>
    /\ UNCHANGED <<discoveryVars, set_changed_calls, drained, searched>>
    /\ UNCHANGED pluginVars

\* register_server.run_if(resource_exists_and_changed::<DiscoverableServer>())
RegisterServer ==
    /\ CanRun("PreUpdate", "register_server")
    /\ done' = done \cup {"register_server"}
    /\ ds_changed' = FALSE
    /\ IF discoverable # <<>> /\ ds_changed
       THEN LET info == ServiceInfoOf(discoverable[1])
            IN  \E ok \in BOOLEAN :
                 /\ calls' = Append(calls, [op |-> "register", fullname |-> info.fullname,
                                            port |-> info.port, metadata |-> info.metadata,
                                            ok |-> ok])
                 /\ crashed' = ~ok
                 /\ my_services' =
                        IF ok THEN MapInsert(my_services, info.fullname,
                                             [port |-> info.port, metadata |-> info.metadata])
                        ELSE my_services
                 /\ lastCmds' = IF ok THEN LastTwo(Append(lastCmds, "register"))
                                ELSE lastCmds
                 /\ commands' = IF ok THEN commands \o RegisterCommands(info.fullname)
                                ELSE commands
       ELSE UNCHANGED <<calls, crashed, my_services, lastCmds, commands>>
    /\ UNCHANGED <<phase, discoverable, signals, existed, serviceFullname, logger, monitor>>
    /\ UNCHANGED <<discoveryVars, set_changed_calls, drained, searched>>
    /\ UNCHANGED pluginVars

\* unregister_server with its conditions short-circuited, the second one
\* first: `existed` follows the resource only while ServiceFullname exists.
UnregisterServerShortCircuit ==
    /\ CanRun("PreUpdate", "unregister_server")
    /\ done' = done \cup {"unregister_server"}
    /\ existed' = IF serviceFullname # <<>> THEN discoverable # <<>> ELSE existed
    /\ IF discoverable = <<>> /\ existed /\ serviceFullname # <<>>
       THEN \E ok \in BOOLEAN :
             /\ calls' = Append(calls, [op |-> "unregister",
                                        fullname |-> serviceFullname[1], ok |-> ok])
             /\ crashed' = ~ok
             /\ my_services' = IF ok THEN MapRemove(my_services, serviceFullname[1])
                               ELSE my_services
             /\ lastCmds' = IF ok THEN LastTwo(Append(lastCmds, "unregister"))
                            ELSE lastCmds
             /\ commands' = commands \o UnregisterCommands
       ELSE UNCHANGED <<calls, crashed, my_services, lastCmds, commands>>
    /\ UNCHANGED <<phase, serviceFullname, logger, monitor>>
    /\ UNCHANGED <<hostVars, discoveryVars, set_changed_calls, drained, searched>>
    /\ UNCHANGED pluginVars

\* unregister_server without resource_removed: it runs in every frame in
\* which ServiceFullname exists and the record does not.
UnregisterServerWheneverAbsent ==
    /\ CanRun("PreUpdate", "unregister_server")
    /\ done' = done \cup {"unregister_server"}
    /\ existed' = (discoverable # <<>>)
    /\ IF discoverable = <<>> /\ serviceFullname # <<>>
       THEN \E ok \in BOOLEAN :
             /\ calls' = Append(calls, [op |-> "unregister",
                                        fullname |-> serviceFullname[1], ok |-> ok])
             /\ crashed' = ~ok
             /\ my_services' = IF ok THEN MapRemove(my_services, serviceFullname[1])
                               ELSE my_services
             /\ lastCmds' = IF ok THEN LastTwo(Append(lastCmds, "unregister"))
                            ELSE lastCmds
             /\ commands' = commands \o UnregisterCommands
       ELSE UNCHANGED <<calls, crashed, my_services, lastCmds, commands>>
    /\ UNCHANGED <<phase, serviceFullname, logger, monitor>>
    /\ UNCHANGED <<hostVars, discoveryVars, set_changed_calls, drained, searched>>
    /\ UNCHANGED pluginVars

\* unregister_server.run_if(resource_removed::<DiscoverableServer>())
\*                  .run_if(resource_exists::<ServiceFullname>())
\* Both conditions are evaluated in every frame, so `existed` always follows
\* the resource.
UnregisterServer ==
    /\ CanRun("PreUpdate", "unregister_server")
    /\ done' = done \cup {"unregister_server"}
    /\ existed' = (discoverable # <<>>)
    /\ IF discoverable = <<>> /\ existed /\ serviceFullname # <<>>
       THEN \E ok \in BOOLEAN :
             /\ calls' = Append(calls, [op |-> "unregister",
                                        fullname |-> serviceFullname[1], ok |-> ok])
             /\ crashed' = ~ok
             /\ my_services' = IF ok THEN MapRemove(my_services, serviceFullname[1])
                               ELSE my_services
             /\ lastCmds' = IF ok THEN LastTwo(Append(lastCmds, "unregister"))
                            ELSE lastCmds
             /\ commands' = commands \o UnregisterCommands
       ELSE UNCHANGED <<calls, crashed, my_services, lastCmds, commands>>
    /\ UNCHANGED <<phase, serviceFullname, logger, monitor>>
    /\ UNCHANGED <<hostVars, discoveryVars, set_changed_calls, drained, searched>>
    /\ UNCHANGED pluginVars

\* search_servers
SearchServers ==
    /\ CanRun("PreUpdate", "search_servers")
    /\ done' = done \cup {"search_servers"}
    /\ IF signals = 0
       THEN UNCHANGED <<signals, servers, list_changed, calls, crashed, sessions,
                        streams, commands, expected, searched>>
       ELSE LET cleared == ClearServers(servers)
            IN  /\ signals' = ReadSignals(signals)
                /\ servers' = cleared.servers
                /\ list_changed' = (list_changed \/ cleared.marked)
                /\ searched' = <<[searching |-> searching,
                                  len |-> Cardinality(DOMAIN servers),
                                  signals |-> signals,
                                  pending |-> IF searching \in DOMAIN streams
                                              THEN Len(streams[searching]) ELSE 0]>>
                /\ \E ok \in BOOLEAN :
                    /\ calls' = Append(calls, [op |-> "browse",
                                               ty |-> ServiceType(ServiceName), ok |-> ok])
                    /\ crashed' = ~ok
                    /\ sessions' = IF ok THEN sessions + 1 ELSE sessions
                    /\ streams' = IF ok THEN MapInsert(streams, sessions + 1, <<>>)
                                  ELSE streams
                    /\ expected' = IF ok THEN EmptyMap ELSE expected
                    /\ commands' = IF ok THEN commands \o SearchCommands(sessions + 1)
                                   ELSE commands
    /\ UNCHANGED <<phase, discoverable, ds_changed, searching, closed, logger, monitor>>
    /\ UNCHANGED <<registrationVars, set_changed_calls, drained>>
    /\ UNCHANGED pluginVars

\* The end of Startup and of PreUpdate: the queued commands are applied, and a
\* stream whose Receiver no resource holds any more is dropped.
ApplyDeferred ==
    /\ ~crashed
    /\ phase \in {"Startup", "PreUpdate"}
    /\ done = SystemsOf(phase)
    /\ LET res == ApplyCommands([serviceFullname |-> serviceFullname,
                                 searching |-> searching, logger |-> logger], commands)
       IN  /\ serviceFullname' = res.serviceFullname
           /\ searching' = res.searching
           /\ logger' = res.logger
           /\ streams' = [s \in DOMAIN streams \cap {res.searching} |-> streams[s]]
           /\ closed' = closed \cap {res.searching}
    /\ commands' = <<>>
    /\ done' = {}
    /\ phase' = IF phase = "Startup" THEN "PreUpdate" ELSE "Update"
    /\ UNCHANGED <<crashed, monitor, existed, my_services, lastCmds>>
    /\ UNCHANGED <<hostVars, servers, list_changed, sessions, expected, frameVars>>
    /\ UNCHANGED pluginVars

\* The host's Update schedule ends.
EndUpdate ==
    /\ ~crashed
    /\ phase = "Update"
    /\ phase' = "PostUpdate"
    /\ UNCHANGED <<done, commands, crashed, logger, monitor>>
    /\ UNCHANGED <<hostVars, registrationVars, discoveryVars, frameVars>>
    /\ UNCHANGED pluginVars

\* log_daemon_events.run_if(resource_exists::<Logger>())
LogDaemonEvents ==
    /\ CanRun("PostUpdate", "log_daemon_events")
    /\ done' = done \cup {"log_daemon_events"}
    /\ monitor' = IF logger THEN <<>> ELSE monitor
    /\ UNCHANGED <<phase, commands, crashed, logger>>
    /\ UNCHANGED <<hostVars, registrationVars, discoveryVars, frameVars>>
    /\ UNCHANGED pluginVars

\* update_discovered_servers without its run condition, notifying in every
\* frame in which no session exists.
UpdateDiscoveredServersUnconditional ==
    /\ CanRun("PostUpdate", "update_discovered_servers")
    /\ done' = done \cup {"update_discovered_servers"}
    /\ IF searching # 0
       THEN LET events == streams[searching]
                st == DrainResult(servers, events)
            IN  /\ servers' = st.servers
                /\ streams' = [streams EXCEPT ![searching] = <<>>]
                /\ set_changed_calls' = set_changed_calls + st.notified
                /\ list_changed' = (list_changed \/ st.notified > 0)
                /\ drained' = <<[session |-> searching, events |-> events,
                                 before |-> servers]>>
       ELSE /\ set_changed_calls' = set_changed_calls + 1
            /\ list_changed' = TRUE
            /\ UNCHANGED <<servers, streams, drained>>
    /\ UNCHANGED <<phase, commands, crashed, logger, monitor, calls, searched>>
    /\ UNCHANGED <<hostVars, registrationVars, searching, sessions, closed, expected>>
    /\ UNCHANGED pluginVars

\* update_discovered_servers with iter() for try_iter(): it waits for an
\* event while the stream is empty and open.
UpdateDiscoveredServersBlocking ==
    /\ CanRun("PostUpdate", "update_discovered_servers")
    /\ done' = done \cup {"update_discovered_servers"}
    /\ searching # 0 => (streams[searching] # <<>> \/ searching \in closed)
    /\ IF searching # 0
       THEN LET events == streams[searching]
                st == DrainResult(servers, events)
            IN  /\ servers' = st.servers
                /\ streams' = [streams EXCEPT ![searching] = <<>>]
                /\ set_changed_calls' = set_changed_calls + st.notified
                /\ list_changed' = (list_changed \/ st.notified > 0)
                /\ drained' = <<[session |-> searching, events |-> events,
                                 before |-> servers]>>
       ELSE UNCHANGED <<servers, streams, set_changed_calls, list_changed, drained>>
    /\ UNCHANGED <<phase, commands, crashed, logger, monitor, calls, searched>>
    /\ UNCHANGED <<hostVars, registrationVars, searching, sessions, closed, expected>>
    /\ UNCHANGED pluginVars

\* update_discovered_servers.run_if(resource_exists::<Searching>())
UpdateDiscoveredServers ==
    /\ CanRun("PostUpdate", "update_discovered_servers")
    /\ done' = done \cup {"update_discovered_servers"}
    /\ IF searching # 0
       THEN LET events == streams[searching]
                st == DrainResult(servers, events)
            IN  /\ servers' = st.servers
                /\ streams' = [streams EXCEPT ![searching] = <<>>]
                /\ set_changed_calls' = set_changed_calls + st.notified
                /\ list_changed' = (list_changed \/ st.notified > 0)
                /\ drained' = <<[session |-> searching, events |-> events,
                                 before |-> servers]>>
       ELSE UNCHANGED <<servers, streams, set_changed_calls, list_changed, drained>>
    /\ UNCHANGED <<phase, commands, crashed, logger, monitor, calls, searched>>
    /\ UNCHANGED <<hostVars, registrationVars, searching, sessions, closed, expected>>
    /\ UNCHANGED pluginVars

\* The frame ends: the next one starts with PreUpdate.
NextFrame ==
    /\ ~crashed
    /\ phase = "PostUpdate"
    /\ done = SystemsOf(phase)
    /\ phase' = "PreUpdate"
    /\ done' = {}
    /\ calls' = <<>>
    /\ set_changed_calls' = 0
    /\ list_changed' = FALSE
    /\ drained' = <<>>
    /\ searched' = <<>>
    /\ UNCHANGED <<commands, crashed, logger, monitor>>
    /\ UNCHANGED <<hostVars, registrationVars, searching, servers, sessions, streams,
                    closed, expected>>
    /\ UNCHANGED pluginVars

\* ------------------------------------------------------------- specifications
HostAdvertises ==
    \/ \E record \in Records : HostInsert(record)
    \/ \E record \in Records : HostMutate(record)
    \/ HostRemove

Daemon ==
    \/ \E event \in ServiceEvents : TransportEnqueue(event)
    \/ \E event \in DaemonEvents : MonitorEnqueue(event)

Frame ==
    \/ SetupLogger
    \/ RegisterServer
    \/ UnregisterServer
    \/ SearchServers
    \/ ApplyDeferred
    \/ EndUpdate
    \/ LogDaemonEvents
    \/ UpdateDiscoveredServers
    \/ NextFrame

Next == Frame \/ HostAdvertises \/ HostSendSearch \/ Daemon

\* A host that advertises and searches (examples/server_and_client.rs).
Spec == Init /\ [][Next]_vars

\* A host that only searches (examples/client.rs).
NextClient ==
    Frame \/ HostSendSearch \/ \E event \in ServiceEvents : TransportEnqueue(event)

SpecClient == Init /\ [][NextClient]_vars

\* A host that only advertises (examples/server.rs).
NextServer ==
    Frame \/ HostAdvertises \/ \E event \in DaemonEvents : MonitorEnqueue(event)

SpecServer == Init /\ [][NextServer]_vars

\* One service of the network, as the daemon reports it: resolved, removed.
OneService == {Resolved(BaseInfo(Fullname1)), Removed(Fullname1)}

\* A host that advertises and searches, on a network with one other service
\* that stays.
NextBoth ==
    \/ Frame
    \/ HostAdvertises
    \/ HostSendSearch
    \/ TransportEnqueue(Resolved(BaseInfo(Fullname1)))
    \/ \E event \in DaemonEvents : MonitorEnqueue(event)

SpecBoth == Init /\ [][NextBoth]_vars

\* A host that only searches, on a network of two services that differ in
\* nothing but their fullname, the first also reported under a hostname
\* without the suffix and under one that carries it twice, and removed.
TwinServices ==
    {Resolved(BaseInfo(Fullname1)), Resolved(BaseInfo(Fullname2)),
     Resolved([BaseInfo(Fullname1) EXCEPT !.hostname = <<"p">>]),
     Resolved([BaseInfo(Fullname1) EXCEPT
                  !.hostname = <<"p">> \o LocalSuffix \o LocalSuffix]),
     Removed(Fullname1)}

NextTwins ==
    Frame \/ HostSendSearch \/ \E event \in TwinServices : TransportEnqueue(event)

SpecTwins == Init /\ [][NextTwins]_vars

\* A host that only searches, with a daemon that may stop; the executor runs
\* every system of a schedule, so update_discovered_servers is not put off
\* for ever.
NextDrain ==
    \/ Frame
    \/ HostSendSearch
    \/ \E event \in OneService : TransportEnqueue(event)
    \/ TransportClose

SpecDrain == Init /\ [][NextDrain]_vars /\ WF_vars(UpdateDiscoveredServers)

\* The construction of the plugin, for every name.
NextNew == NewPlugin

SpecNew == InitNew /\ [][NextNew]_vars

\* --------------------------------------------------------- reading a frame
\* The drain of this frame, when update_discovered_servers ran its body.
Drain == drained[1]

IsResolved(event) == event.type = "ServiceResolved"
IsRemoved(event) == event.type = "ServiceRemoved"

\* The key a Resolved or Removed event is about.
KeyOf(event) == IF IsResolved(event) THEN event.info.fullname ELSE event.fullname

\* The record stored under the key of events[i] when the loop reaches it:
\* what the newest earlier event of the drain about that key left, or else
\* what the map held before the drain.  <<>> when nothing is stored.
StoredAt(before, events, i) ==
    LET key == KeyOf(events[i])
        earlier == {j \in 1..(i - 1) :
                       /\ IsResolved(events[j]) \/ IsRemoved(events[j])
                       /\ KeyOf(events[j]) = key}
    IN  IF earlier # {}
        THEN LET j == CHOOSE x \in earlier : \A y \in earlier : y <= x
             IN  IF IsResolved(events[j]) THEN <<DeriveServer(events[j].info)>> ELSE <<>>
        ELSE IF key \in DOMAIN before THEN <<before[key]>> ELSE <<>>

\* events[i] is a Resolved that re-reports exactly what is stored.
SameResolve(before, events, i) ==
    /\ IsResolved(events[i])
    /\ StoredAt(before, events, i) = <<DeriveServer(events[i].info)>>

\* events[i] is a Resolved whose key is new or whose record differs.
NewResolve(before, events, i) ==
    /\ IsResolved(events[i])
    /\ StoredAt(before, events, i) # <<DeriveServer(events[i].info)>>

\* The newest event of the drain about key, as <<event>>, or <<>>.
LastAbout(events, key) ==
    LET about == {j \in 1..Len(events) :
                     /\ IsResolved(events[j]) \/ IsRemoved(events[j])
                     /\ KeyOf(events[j]) = key}
    IN  IF about = {} THEN <<>>
        ELSE <<events[CHOOSE x \in about : \A y \in about : y <= x]>>

CallsOf(op) == SelectSeq(calls, LAMBDA c : c.op = op)

\* ------------------------------------------------------------------- claims
\* C1: a Removed(key) for a key that is not in the collection leaves the
\* collection unchanged and does not set the changed flag of the cycle; a
\* Removed(key) for a key that is in it deletes the entry and sets the flag.
\* Stated for a cycle that drains that one event.
C1_RemovedContract ==
    (drained # <<>> /\ Len(Drain.events) = 1 /\ IsRemoved(Drain.events[1])) =>
        LET key == Drain.events[1].fullname
        IN  IF key \in DOMAIN Drain.before
            THEN servers = MapRemove(Drain.before, key) /\ set_changed_calls = 1
            ELSE servers = Drain.before /\ set_changed_calls = 0

\* C2: a cycle that drains only Resolved events whose key is stored and
\* whose derived record equals the stored one leaves the collection as it
\* was, calls set_changed not at all and leaves the list unmarked.
C2_SameResolveNoChange ==
    (/\ drained # <<>>
     /\ Drain.events # <<>>
     /\ \A i \in 1..Len(Drain.events) : SameResolve(Drain.before, Drain.events, i)) =>
        /\ servers = Drain.before
        /\ set_changed_calls = 0
        /\ ~list_changed

C2_Witness ==
    /\ drained # <<>>
    /\ Len(Drain.events) = 2
    /\ \A i \in 1..2 : SameResolve(Drain.before, Drain.events, i)
    /\ Drain.events[1] # Drain.events[2]
    /\ set_changed_calls = 0

\* C3: after a drain, the key of every Resolved event that was the newest
\* about its key holds the record derived from it; and when the drain held a
\* Resolved whose key was new or whose record differed from the stored one,
\* set_changed was called exactly once in the cycle, however many there were.
C3_UpsertNotifiesOnce ==
    drained # <<>> =>
        /\ \A key \in Fullnames :
              LET last == LastAbout(Drain.events, key)
              IN  (last # <<>> /\ IsResolved(last[1])) =>
                      /\ key \in DOMAIN servers
                      /\ servers[key] = DeriveServer(last[1].info)
        /\ (\E i \in 1..Len(Drain.events) : NewResolve(Drain.before, Drain.events, i)) =>
              /\ set_changed_calls = 1
              /\ list_changed

C3_Witness ==
    /\ drained # <<>>
    /\ Len(Drain.events) = 2
    /\ Fullname1 \in DOMAIN Drain.before
    /\ \A i \in 1..2 : NewResolve(Drain.before, Drain.events, i)
    /\ KeyOf(Drain.events[1]) = Fullname1
    /\ KeyOf(Drain.events[2]) = Fullname1
    /\ set_changed_calls = 1

\* C4: when search_servers processed a signal while a session was active and
\* the collection was not empty, the collection is empty until the drain of
\* this cycle, that drain starts from the empty collection and reads the
\* stream of the new session, and the stream of the replaced session is
\* dropped with whatever it still held.
C4_SearchClearsFirst ==
    (searched # <<>> /\ searched[1].searching # 0 /\ searched[1].len > 0) =>
        /\ drained = <<>> => servers = EmptyMap
        /\ drained # <<>> =>
              /\ Drain.before = EmptyMap
              /\ Drain.session = sessions
              /\ Drain.session # searched[1].searching
              /\ \A key \in DOMAIN servers :
                    LET last == LastAbout(Drain.events, key)
                    IN  last # <<>> /\ IsResolved(last[1])
        /\ phase \in {"Update", "PostUpdate"} =>
              searched[1].searching \notin DOMAIN streams

C4_Witness ==
    /\ searched # <<>>
    /\ searched[1].searching # 0
    /\ searched[1].len > 0
    /\ searched[1].pending > 0
    /\ drained # <<>>
    /\ Drain.events # <<>>
    /\ DOMAIN servers # {}

\* ------------------------------------------------------ registration claims
\* The fullname register_server registers and caches.
RegFullname == ServiceInfoFullname(ServiceType(ServiceName), InstanceName)

Registered == RegFullname \in DOMAIN my_services

LastCmd == IF lastCmds = <<>> THEN "none" ELSE lastCmds[Len(lastCmds)]

\* C5 as claimed: the daemon never receives two register commands without an
\* unregister command between them.
C5_UnregisterBetweenRegisters == lastCmds # <<"register", "register">>

\* C5 as amended: replacing the record while Registered makes the next cycle
\* register the new record under the same fullname, with no unregister call
\* in that cycle: the daemon holds one registration, that of the newest
\* register call.
C5_ReplaceReregisters ==
    /\ DOMAIN my_services \subseteq {RegFullname}
    /\ ~(CallsOf("register") # <<>> /\ CallsOf("unregister") # <<>>)
    /\ \A i \in 1..Len(calls) :
          (calls[i].op = "register" /\ calls[i].ok) =>
              /\ calls[i].fullname = RegFullname
              /\ my_services[RegFullname] =
                     [port |-> calls[i].port, metadata |-> calls[i].metadata]

C5_Witness ==
    /\ lastCmds = <<"register", "register">>
    /\ phase = "Update"
    /\ CallsOf("register") # <<>>
    /\ existed
    /\ my_services[RegFullname].port = 4321

\* The steps in which register_server and unregister_server run.
RegisterStep == "register_server" \notin done /\ "register_server" \in done'
UnregisterStep == "unregister_server" \notin done /\ "unregister_server" \in done'

\* C6: whenever the record exists and was supplied or replaced since the last
\* cycle, register_server issues one register call with the record's port and
\* metadata; when the record that was there in the last cycle is gone,
\* unregister_server issues one unregister call for the cached fullname, the
\* one the register calls used; otherwise neither issues a call.
C6_RegisterMatchesRecord ==
    [][/\ RegisterStep =>
            IF discoverable # <<>> /\ ds_changed
            THEN \E ok \in BOOLEAN :
                    calls' = Append(calls, [op |-> "register", fullname |-> RegFullname,
                                            port |-> discoverable[1].port,
                                            metadata |-> discoverable[1].metadata,
                                            ok |-> ok])
            ELSE calls' = calls
       /\ UnregisterStep =>
            IF discoverable = <<>> /\ existed
            THEN /\ serviceFullname = <<RegFullname>>
                 /\ \E ok \in BOOLEAN :
                       calls' = Append(calls, [op |-> "unregister",
                                               fullname |-> RegFullname, ok |-> ok])
            ELSE calls' = calls]_vars

C6_Witness ==
    /\ lastCmds = <<"register", "unregister">>
    /\ CallsOf("unregister") = <<[op |-> "unregister", fullname |-> RegFullname,
                                  ok |-> TRUE]>>
    /\ CallsOf("register") = <<>>
    /\ ~Registered
    /\ discoverable = <<>>

\* C7 as claimed: no ServiceFullname exists while the manager is Unregistered.
C7_NameClearedWhenUnregistered ==
    (phase \in {"Update", "PostUpdate"} /\ ~Registered) => serviceFullname = <<>>

\* C7 as amended: the cached name is never cleared: once ServiceFullname is
\* inserted it keeps its value in every later state, and after an
\* unregistration it still holds the unregistered name.
C7_NameKept ==
    /\ [](LastCmd = "unregister" => serviceFullname = <<RegFullname>>)
    /\ [][serviceFullname # <<>> => serviceFullname' = serviceFullname]_vars

C7_Witness ==
    /\ LastCmd = "unregister"
    /\ ~Registered
    /\ phase = "PostUpdate"
    /\ serviceFullname = <<RegFullname>>

\* C8 as claimed: the Logger exists exactly while the manager is Registered.
C8_LoggerIffRegistered ==
    phase \in {"Update", "PostUpdate"} => (logger <=> Registered)

\* C8 as amended: the Logger is opened by setup_logger in Startup, whatever
\* is registered, and exists in every state after Startup: registering and
\* unregistering neither open nor close it.
C8_LoggerSinceStartup ==
    /\ phase # "Startup" => logger
    /\ Len(CallsOf("monitor")) <= 1

C8_Witness ==
    /\ logger
    /\ LastCmd = "unregister"
    /\ ~Registered
    /\ phase = "Update"

\* --------------------------------------------------- more discovery claims
\* The step in which search_servers runs.
SearchStep == "search_servers" \notin done /\ "search_servers" \in done'

\* C9: search_servers with one or more queued signals reads them all, empties
\* the collection and issues one browse call; with none it leaves the
\* collection, the session, the streams and the calls alone.  No frame holds
\* more than one browse call.
C9_SearchCoalesced ==
    /\ [](Len(CallsOf("browse")) <= 1)
    /\ [][SearchStep =>
            IF signals = 0
            THEN UNCHANGED <<signals, servers, list_changed, searching, sessions,
                             streams, calls, commands>>
            ELSE /\ signals' = 0
                 /\ servers' = EmptyMap
                 /\ \E ok \in BOOLEAN :
                       calls' = Append(calls, [op |-> "browse",
                                               ty |-> ServiceType(ServiceName),
                                               ok |-> ok])]_vars

C9_Witness ==
    /\ searched # <<>>
    /\ searched[1].signals >= 2
    /\ searched[1].len > 0
    /\ signals = 0
    /\ servers = EmptyMap
    /\ Len(CallsOf("browse")) = 1

\* The newest session is the one held, and its stream is empty.
AllDrained ==
    /\ ~crashed
    /\ searching # 0
    /\ searching = sessions
    /\ streams[searching] = <<>>

\* C10: once everything the daemon enqueued in the current session is
\* drained, over however many cycles, the collection is the last-writer-wins
\* fold of those events in enqueue order: a key is present exactly when the
\* last event about it was a Resolved, with the record derived from it.
C10_LastWriterWins == AllDrained => servers = expected

C10_Witness ==
    /\ AllDrained
    /\ drained # <<>>
    /\ Len(Drain.events) = 2
    /\ IsResolved(Drain.events[1])
    /\ Drain.events[2] = Removed(Fullname1)
    /\ KeyOf(Drain.events[1]) = Fullname1
    /\ Fullname2 \in DOMAIN Drain.before
    /\ DOMAIN servers = {Fullname2}

\* ------------------------------------------------------------ session claims
\* The frame is between its PreUpdate and the end of its PostUpdate: the
\* commands of PreUpdate are applied.
CycleBoundary == ~crashed /\ phase \in {"Update", "PostUpdate"}

\* C11: at every cycle boundary at most one discovery session exists, and
\* the one stream that is open is the one Searching holds; after
\* search_servers processed a signal the session is the new one and the
\* stream of the one it replaced is dropped; and the transport is never
\* called to unregister or cancel the dropped browse: a host that only
\* searches makes monitor and browse calls and no others.
C11_OneSession ==
    /\ CycleBoundary =>
          /\ DOMAIN streams = {searching} \ {0}
          /\ Cardinality(DOMAIN streams) <= 1
          /\ searched # <<>> =>
                /\ searching = sessions
                /\ searching # searched[1].searching
                /\ searched[1].searching \notin DOMAIN streams
    /\ \A i \in 1..Len(calls) : calls[i].op \in {"monitor", "browse"}

C11_Witness ==
    /\ CycleBoundary
    /\ searched # <<>>
    /\ searched[1].searching = 1
    /\ searched[1].pending > 0
    /\ searching = 2
    /\ DOMAIN streams = {2}
    /\ CallsOf("browse") # <<>>

\* ---------------------------------------------------------------- name claim
\* The name with every underscore rewritten to a hyphen.
Hyphenated(raw) == [i \in 1..Len(raw) |-> IF raw[i] = "_" THEN "-" ELSE raw[i]]

\* The rules of a service name, character by character.
ValidServiceName(n) ==
    /\ Len(n) >= 1
    /\ Len(n) <= 15
    /\ \A i \in 1..Len(n) : n[i] \in {"a", "Z", "1", "-"}
    /\ n[1] # "-"
    /\ n[Len(n)] # "-"
    /\ \A i \in 1..(Len(n) - 1) : ~(n[i] = "-" /\ n[i + 1] = "-")
    /\ \E i \in 1..Len(n) : n[i] \in {"a", "Z"}

\* C12: validate_name(raw) succeeds exactly when raw with its underscores
\* rewritten to hyphens is 1 to 15 characters of ASCII letters, digits and
\* hyphens, neither starts nor ends with a hyphen, has no two hyphens in a
\* row and has a letter; it then returns that rewritten name, validating the
\* result returns it unchanged, and raw and its rewritten form give the same
\* service type; otherwise it panics and no plugin is made.
C12_ValidateName ==
    plugin # <<>> =>
        LET n == Hyphenated(raw_name)
            result == plugin[1]
        IN  /\ result.ok <=> ValidServiceName(n)
            /\ result.ok <=> ~crashed
            /\ result.ok =>
                  /\ result.name = n
                  /\ validate_name(result.name) = result
                  /\ validate_name(n) = result
                  /\ ServiceType(validate_name(n).name) = ServiceType(result.name)

C12_Witness ==
    /\ plugin # <<>>
    /\ plugin[1].ok
    /\ Len(raw_name) = 15
    /\ raw_name[2] = "_"
    /\ raw_name[14] = "_"
    /\ plugin[1].name # raw_name

\* A name of sixteen characters is refused.
C12_WitnessTooLong ==
    /\ plugin # <<>>
    /\ ~plugin[1].ok
    /\ Len(raw_name) = 16
    /\ \A i \in 1..16 : raw_name[i] = "a"

\* No search signal has been processed: search_servers has made no browse
\* call, answered or failed.
NoSearchYet == sessions = 0 /\ CallsOf("browse") = <<>>

RegisterFailed == \E i \in 1..Len(calls) : calls[i].op = "register" /\ ~calls[i].ok

\* A command that inserts ServiceFullname is queued.
NameQueued ==
    \E i \in 1..Len(commands) :
        commands[i].cmd = "insert" /\ commands[i].resource = "ServiceFullname"

\* C14: a register call that fails is fatal: the failed call is the last
\* call the plugin makes, no step follows it, and it queues no insertion of
\* ServiceFullname, so the cached name stays what it was: absent when no
\* registration has succeeded before.  ServiceFullname exists only after a
\* register call that succeeded.
C14_RegisterFailureFatal ==
    /\ [](RegisterFailed =>
            /\ crashed
            /\ ~calls[Len(calls)].ok
            /\ calls[Len(calls)].op = "register"
            /\ ~NameQueued
            /\ lastCmds = <<>> => (serviceFullname = <<>> /\ ~Registered))
    /\ []((serviceFullname # <<>> \/ NameQueued) => lastCmds # <<>>)
    /\ [][~crashed]_vars
    /\ [][RegisterStep /\ RegisterFailed' =>
            UNCHANGED <<serviceFullname, commands, my_services, lastCmds>>]_vars

C14_Witness ==
    /\ RegisterFailed
    /\ crashed
    /\ lastCmds = <<>>
    /\ serviceFullname = <<>>
    /\ discoverable # <<>>

\* A failed registration of a replaced record leaves the earlier one.
C14_WitnessReplace ==
    /\ RegisterFailed
    /\ crashed
    /\ lastCmds = <<"register">>
    /\ serviceFullname = <<RegFullname>>
    /\ my_services[RegFullname].port # discoverable[1].port

\* ------------------------------------------------------------------ key claim
\* The hostname without one trailing ".local.", when it ends with it.
WithoutLocal(hostname) ==
    LET n == Len(hostname) - 7
    IN  IF n >= 0 /\ hostname = SubSeq(hostname, 1, n) \o <<".", "l", "o", "c", "a", "l", ".">>
        THEN SubSeq(hostname, 1, n)
        ELSE hostname

\* C15: the collection is keyed by the fullname of the Resolved event as it
\* is: after a drain the keys are the fullnames whose newest event was a
\* Resolved and the untouched keys of before, every one of them still ending
\* in ".local."; two Resolved events that differ only in their fullname
\* leave two entries with equal records; and the hostname stored for a
\* Resolved is the event's hostname without one trailing ".local.", or the
\* hostname itself when it does not end with it.
C15_KeyedByFullname ==
    drained # <<>> =>
        /\ DOMAIN servers =
              {key \in Fullnames :
                  LET last == LastAbout(Drain.events, key)
                  IN  IF last = <<>> THEN key \in DOMAIN Drain.before
                      ELSE IsResolved(last[1])}
        /\ \A key \in DOMAIN servers :
              /\ StripSuffix(key, LocalSuffix) # key
              /\ LET last == LastAbout(Drain.events, key)
                 IN  last # <<>> =>
                        servers[key].hostname = WithoutLocal(last[1].info.hostname)
        /\ (/\ \A i \in 1..Len(Drain.events) : IsResolved(Drain.events[i])
            /\ \E i, j \in 1..Len(Drain.events) :
                  Drain.events[i].info.fullname # Drain.events[j].info.fullname) =>
              Cardinality(DOMAIN servers) = 2

C15_Witness ==
    /\ drained # <<>>
    /\ Drain.before = EmptyMap
    /\ Drain.events = <<Resolved(BaseInfo(Fullname1)), Resolved(BaseInfo(Fullname2))>>
    /\ Cardinality(DOMAIN servers) = 2
    /\ servers[Fullname1] = servers[Fullname2]
    /\ servers[Fullname1].hostname = <<"p">>

\* A hostname that carries the suffix twice keeps one.
C15_WitnessTwice ==
    /\ drained # <<>>
    /\ Len(Drain.events) = 1
    /\ IsResolved(Drain.events[1])
    /\ Drain.events[1].info.hostname = <<"p">> \o LocalSuffix \o LocalSuffix
    /\ servers[Fullname1].hostname = <<"p">> \o LocalSuffix

\* ---------------------------------------------------------------- drain claim
\* The step in which update_discovered_servers runs.
DrainStep ==
    "update_discovered_servers" \notin done /\ "update_discovered_servers" \in done'

\* The events folded into the collection one after the other, last writer
\* wins.
RECURSIVE FoldEvents(_, _)
FoldEvents(fold, events) ==
    IF events = <<>> THEN fold
    ELSE FoldEvents(LastWriter(fold, Head(events)), Tail(events))

\* C16: the drain of a cycle never waits and terminates: once PostUpdate is
\* reached update_discovered_servers completes, whether the stream holds
\* events, is empty or is closed; while a session exists it applies every
\* event that was in the stream when it began, in order, and leaves the
\* stream empty; and with an empty stream, open or closed, it leaves the
\* collection and the changed flag as they were.
C16_DrainCompletes ==
    /\ (phase = "PostUpdate" /\ "update_discovered_servers" \notin done)
           ~> ("update_discovered_servers" \in done)
    /\ [][(DrainStep /\ searching # 0) =>
            /\ drained' = <<[session |-> searching, events |-> streams[searching],
                             before |-> servers]>>
            /\ servers' = FoldEvents(servers, streams[searching])
            /\ streams'[searching] = <<>>
            /\ streams[searching] = <<>> =>
                  UNCHANGED <<servers, list_changed, set_changed_calls>>]_vars

C16_Witness ==
    /\ drained # <<>>
    /\ Drain.events = <<>>
    /\ Drain.session \in closed
    /\ Drain.before # EmptyMap
    /\ servers = Drain.before
    /\ ~list_changed

\* A drain of a full stream.
C16_WitnessFull ==
    /\ drained # <<>>
    /\ Len(Drain.events) = MaxQueue
    /\ streams[searching] = <<>>
    /\ servers # Drain.before

\* The registration step of the cycle is over: register_server and
\* unregister_server have both run, and neither call failed.
AfterRegistration ==
    /\ ~crashed
    /\ phase = "PreUpdate"
    /\ {"register_server", "unregister_server"} \subseteq done

\* C17: after register_server and unregister_server have run, in either
\* order, the daemon holds a registration of this process exactly when the
\* DiscoverableServer resource exists, and it is the registration of that
\* record, whatever the host inserted, replaced and removed since the last
\* cycle; and no frame holds both a register and an unregister call.
C17_RegisteredIffRecord ==
    /\ AfterRegistration =>
          /\ Registered <=> discoverable # <<>>
          /\ Registered =>
                my_services[RegFullname] =
                    [port |-> discoverable[1].port, metadata |-> discoverable[1].metadata]
    /\ Len(CallsOf("register")) + Len(CallsOf("unregister")) <= 1

C17_Witness ==
    /\ AfterRegistration
    /\ lastCmds = <<"unregister", "register">>
    /\ CallsOf("register") # <<>>
    /\ Registered
    /\ my_services[RegFullname].port = 4321

\* The record was removed and the registration with it.
C17_WitnessRemoved ==
    /\ AfterRegistration
    /\ lastCmds = <<"register", "unregister">>
    /\ CallsOf("unregister") # <<>>
    /\ ~Registered
    /\ discoverable = <<>>

\* C18: unregister_server issues its call only for the name that is
\* registered at that moment: the daemon registers RegFullname, the
\* daemon's last command was a register, and the call names RegFullname;
\* so the daemon's command log never starts with an unregister and never
\* holds two in a row, although ServiceFullname stays after an
\* unregistration and the record comes and goes.
C18_UnregisterOnlyRegistered ==
    /\ [](lastCmds \notin {<<"unregister">>, <<"unregister", "unregister">>})
    /\ [][(UnregisterStep /\ calls' # calls) =>
            /\ Registered
            /\ LastCmd = "register"
            /\ serviceFullname = <<RegFullname>>
            /\ \E ok \in BOOLEAN :
                  calls' = Append(calls, [op |-> "unregister",
                                          fullname |-> RegFullname, ok |-> ok])]_vars

C18_Witness ==
    /\ CallsOf("unregister") # <<>>
    /\ CallsOf("unregister")[1].ok
    /\ phase = "PostUpdate"
    /\ serviceFullname = <<RegFullname>>
    /\ ~existed
    /\ my_services = EmptyMap

\* The record is gone a frame after its unregistration, the name is still
\* cached, and unregister_server has run without a call.
C18_WitnessNoSecondCall ==
    /\ LastCmd = "unregister"
    /\ serviceFullname = <<RegFullname>>
    /\ discoverable = <<>>
    /\ phase = "PreUpdate"
    /\ "unregister_server" \in done
    /\ calls = <<>>

\* ------------------------------------------------------- notification claims
\* The step that ends the frame.
FrameEnds == phase = "PostUpdate" /\ phase' = "PreUpdate"

\* The cycle is over: every system of PostUpdate has run.
CycleOver == ~crashed /\ phase = "PostUpdate" /\ done = PostUpdateSystems

\* C19: no change of the collection goes unnotified: every step that changes
\* the collection marks it changed, the mark stays until the frame ends,
\* and so a cycle whose drain or search left the collection different from
\* what it was ends with the collection marked.
C19_NoSilentChange ==
    /\ [][servers' # servers => list_changed']_vars
    /\ [][(list_changed /\ ~list_changed') => FrameEnds]_vars
    /\ [](CycleOver =>
            /\ (drained # <<>> /\ servers # Drain.before) => list_changed
            /\ (searched # <<>> /\ searched[1].len > 0) => list_changed)

C19_Witness ==
    /\ CycleOver
    /\ searched # <<>>
    /\ searched[1].len > 0
    /\ drained # <<>>
    /\ servers = Drain.before
    /\ set_changed_calls = 0
    /\ list_changed

\* A drain that overwrote an entry.
C19_WitnessOverwrite ==
    /\ CycleOver
    /\ searched = <<>>
    /\ drained # <<>>
    /\ DOMAIN servers = DOMAIN Drain.before
    /\ servers # Drain.before
    /\ list_changed

\* C20: search_servers marks the collection changed exactly when it
\* processes a signal while the collection holds a peer: a signal processed
\* while the collection is empty skips the clear and marks nothing, and
\* search_servers never calls set_changed.
C20_EmptySearchUnmarked ==
    /\ [][SearchStep =>
            /\ list_changed' = (list_changed \/ (signals > 0 /\ DOMAIN servers # {}))
            /\ set_changed_calls' = set_changed_calls]_vars
    /\ []((searched # <<>> /\ drained = <<>>) =>
            (list_changed <=> searched[1].len > 0))

C20_Witness ==
    /\ searched # <<>>
    /\ searched[1].searching # 0
    /\ searched[1].len = 0
    /\ ~list_changed
    /\ servers = EmptyMap
    /\ phase = "Update"

====
